---------------------------- MODULE Spec2Model ----------------------------
(***************************************************************************)
(* A model of the AQI analyst dashboard: utils.py (CSV loader, summary     *)
(* builder, Gemini requester, OpenWeather live-AQI resolver) and app.py    *)
(* (the Streamlit script, re-executed top to bottom on every interaction). *)
(*                                                                         *)
(* Text is modelled as sequences of one-character strings so that strip,   *)
(* date parsing and number parsing are computed, not assumed.              *)
(***************************************************************************)
EXTENDS Integers, Sequences, FiniteSets, TLC

VARIABLES
    uploaded_file,   \* the sidebar's file_uploader value (app.py:37)
    env_key,         \* GOOGLE_API_KEY / GEMINI_API_KEY set in the environment
    sidebar_key,     \* the sidebar's text_input holds a key (app.py:35)
    session_state,   \* st.session_state (app.py:45-55)
    df,              \* the script's df in the last run (app.py:63-66)
    page,            \* what the last run of the script rendered
    summarized,      \* the argument of summarize_data in the last run
    llm_called,      \* LLM collaborator calls made by the last run
    live,            \* the last fetch_live_aqi call: inputs, result, trace
    live_log         \* (cause, error record) of every failed live-AQI call

vars == <<uploaded_file, env_key, sidebar_key, session_state, df, page,
          summarized, llm_called, live, live_log>>

-----------------------------------------------------------------------------
(* Bounds of the model *)

\* rows of an uploaded CSV
MaxRows == 3
\* observations of a Dataset handed to the summary builder
MaxObs == 3
\* records in the pollution collaborator's "list"
MaxList == 3
\* spaces around a column name
MaxPad == 1

-----------------------------------------------------------------------------
(* Python values *)

None == [kind |-> "None"]
NaT == [kind |-> "NaT"]
NaN == [kind |-> "NaN"]

Range(s) == {s[i] : i \in DOMAIN s}

RECURSIVE SeqSum(_)
SeqSum(s) == IF s = <<>> THEN 0 ELSE Head(s) + SeqSum(Tail(s))

SetMin(S) == CHOOSE x \in S : \A y \in S : x <= y
SetMax(S) == CHOOSE x \in S : \A y \in S : x >= y

-----------------------------------------------------------------------------
(* Text *)

Digits == {"0", "1", "2", "3", "4", "5", "6", "7", "8", "9"}

DigitVal(c) ==
    CASE c = "0" -> 0 [] c = "1" -> 1 [] c = "2" -> 2 [] c = "3" -> 3
      [] c = "4" -> 4 [] c = "5" -> 5 [] c = "6" -> 6 [] c = "7" -> 7
      [] c = "8" -> 8 [] c = "9" -> 9

RECURSIVE DecimalVal(_)
DecimalVal(s) ==
    IF s = <<>> THEN 0
    ELSE 10 * DecimalVal(SubSeq(s, 1, Len(s) - 1)) + DigitVal(s[Len(s)])

RECURSIVE LStrip(_)
LStrip(s) == IF s # <<>> /\ Head(s) = " " THEN LStrip(Tail(s)) ELSE s

RECURSIVE RStrip(_)
RStrip(s) ==
    IF s # <<>> /\ s[Len(s)] = " " THEN RStrip(SubSeq(s, 1, Len(s) - 1)) ELSE s

\* str.strip(): leading and trailing whitespace removed
Strip(s) == RStrip(LStrip(s))

ColDate == <<"D", "a", "t", "e">>
ColCity == <<"C", "i", "t", "y">>
ColAQI == <<"A", "Q", "I">>
ColDateLower == <<"d", "a", "t", "e">>
ColExtra == <<"N", "o", "t", "e">>

\* required = {"Date", "City", "AQI"}
required == {ColDate, ColCity, ColAQI}

-----------------------------------------------------------------------------
(* Dataset Loader: utils.load_data *)

IsLeap(y) == (y % 4 = 0 /\ y % 100 # 0) \/ y % 400 = 0

DaysIn(y, m) ==
    IF m = 2 THEN (IF IsLeap(y) THEN 29 ELSE 28)
    ELSE IF m \in {4, 6, 9, 11} THEN 30 ELSE 31

\* pd.to_datetime(..., errors="coerce") on one cell holding an ISO date
\* YYYY-MM-DD: a Timestamp, or NaT for text that is no calendar date
ToDatetime(cell) ==
    IF /\ Len(cell) = 10
       /\ cell[5] = "-" /\ cell[8] = "-"
       /\ \A i \in {1, 2, 3, 4, 6, 7, 9, 10} : cell[i] \in Digits
    THEN LET y == DecimalVal(SubSeq(cell, 1, 4))
             m == DecimalVal(SubSeq(cell, 6, 7))
             d == DecimalVal(SubSeq(cell, 9, 10))
         IN  IF m \in 1..12 /\ d >= 1 /\ d <= DaysIn(y, m)
             THEN [kind |-> "Timestamp", y |-> y, m |-> m, d |-> d]
             ELSE NaT
    ELSE NaT

\* pd.to_numeric(..., errors="coerce") on one cell: the number an unsigned
\* decimal numeral denotes, or NaN
ToNumeric(cell) ==
    IF cell # <<>> /\ \A i \in DOMAIN cell : cell[i] \in Digits
    THEN [kind |-> "num", v |-> DecimalVal(cell)]
    ELSE NaN

\* df.columns = df.columns.str.strip()
StrippedColumns(file) == [i \in DOMAIN file.header |-> Strip(file.header[i])]

ColumnIndex(columns, name) == CHOOSE i \in DOMAIN columns : columns[i] = name

\* a faulty check: one of the required columns is enough
AnyRequiredPresent(columns) == required \cap Range(columns) # {}
\* required.issubset(df.columns)
RequiredPresent(columns) == required \subseteq Range(columns)

\* df["Date"] = to_datetime(...); df["AQI"] = to_numeric(...): one row
ConvertRow(columns, row) ==
    [Date |-> ToDatetime(row[ColumnIndex(columns, ColDate)]),
     City |-> row[ColumnIndex(columns, ColCity)],
     AQI  |-> ToNumeric(row[ColumnIndex(columns, ColAQI)])]

\* df.dropna(subset=["Date", "AQI"]) keeps a row
NotNa(r) == r.Date # NaT /\ r.AQI # NaN

\* "CSV must contain Date, City, AQI columns", word by word
MissingColumnsMessage ==
    <<<<"C", "S", "V">>, <<"m", "u", "s", "t">>,
      <<"c", "o", "n", "t", "a", "i", "n">>, ColDate, ColCity, ColAQI,
      <<"c", "o", "l", "u", "m", "n", "s">>>>

\* df["Date"] and df["AQI"] raise KeyError for a column the frame lacks
load_data(file) ==
    LET columns == StrippedColumns(file)
    IN  IF ~RequiredPresent(columns)
        THEN [kind |-> "raise", exc |-> "ValueError",
              msg |-> MissingColumnsMessage]
        ELSE IF ColDate \notin Range(columns)
        THEN [kind |-> "raise", exc |-> "KeyError", msg |-> <<ColDate>>]
        ELSE IF ColAQI \notin Range(columns)
        THEN [kind |-> "raise", exc |-> "KeyError", msg |-> <<ColAQI>>]
        ELSE LET conv == [i \in DOMAIN file.rows |->
                             ConvertRow(columns, file.rows[i])]
             IN  [kind |-> "DataFrame", rows |-> SelectSeq(conv, NotNa)]

DateKey(ts) == ts.y * 10000 + ts.m * 100 + ts.d

IsSortedByDate(rows) ==
    \A i, j \in DOMAIN rows : i < j => DateKey(rows[i].Date) <= DateKey(rows[j].Date)

IndexPermutations(n) == {p \in [1..n -> 1..n] : \A i, j \in 1..n : i # j => p[i] # p[j]}

Reorder(rows, p) == [i \in DOMAIN rows |-> rows[p[i]]]

\* a faulty script: the sort is left out
Unsorted(rows) == {rows}
\* df.sort_values("Date"): the default kind is quicksort, which is not
\* stable, so rows of equal date may come out in any order
sort_values(rows) ==
    {s \in {Reorder(rows, p) : p \in IndexPermutations(Len(rows))} : IsSortedByDate(s)}

-----------------------------------------------------------------------------
(* Summary Builder: utils.summarize_data *)

RECURSIVE Unique(_)
\* Series.unique(): the distinct values in order of first appearance
Unique(s) ==
    IF s = <<>> THEN <<>>
    ELSE LET rest == Unique(SubSeq(s, 1, Len(s) - 1))
         IN  IF s[Len(s)] \in Range(rest) THEN rest ELSE Append(rest, s[Len(s)])

RECURSIVE Pow10(_)
Pow10(k) == IF k = 0 THEN 1 ELSE 10 * Pow10(k - 1)

\* num/den rounded to the nearest integer, ties to even
RoundHalfEven(num, den) ==
    LET q == num \div den
        r == num % den
    IN  IF 2 * r < den THEN q
        ELSE IF 2 * r > den THEN q + 1
        ELSE IF q % 2 = 0 THEN q ELSE q + 1

RECURSIVE DigitsOf(_, _)
\* the last k decimal digits of n, most significant first
DigitsOf(n, k) ==
    IF k = 0 THEN <<>> ELSE Append(DigitsOf(n \div 10, k - 1), n % 10)

\* f"{num/den:.<k>f}" for a non-negative quotient: the digits before and
\* after the point.  The float num/den is the double nearest the quotient
\* and a decimal tie is a multiple of 1/4 and exact for fewer than 20
\* rows, so rounding the quotient half-to-even is what the format prints.
FormatFixed(num, den, k) ==
    LET scaled == RoundHalfEven(num * Pow10(k), den)
    IN  [whole |-> scaled \div Pow10(k), decimals |-> DigitsOf(scaled, k)]

\* the ".1f" of utils.py:32-33
SummaryDecimals == 1

\* Timestamp.date(); NaT.date() is NaT
DateOf(ts) == IF ts = NaT THEN NaT ELSE [y |-> ts.y, m |-> ts.m, d |-> ts.d]

\* df.Date.min() / df.Date.max(): NaT over zero rows
DateMin(rows) ==
    IF rows = <<>> THEN NaT
    ELSE CHOOSE t \in {rows[i].Date : i \in DOMAIN rows} :
            \A i \in DOMAIN rows : DateKey(t) <= DateKey(rows[i].Date)
DateMax(rows) ==
    IF rows = <<>> THEN NaT
    ELSE CHOOSE t \in {rows[i].Date : i \in DOMAIN rows} :
            \A i \in DOMAIN rows : DateKey(t) >= DateKey(rows[i].Date)

Cities(rows) == Unique([i \in DOMAIN rows |-> rows[i].City])

\* c = df[df.City == city]; c.AQI
CityAQI(rows, city) ==
    LET IsCity(r) == r.City = city
        c == SelectSeq(rows, IsCity)
    IN  [i \in DOMAIN c |-> c[i].AQI.v]

\* a faulty line: the mean by integer division
CityLineTruncatedMean(rows, city) ==
    LET a == CityAQI(rows, city)
    IN  [kind |-> "city", city |-> city,
         avg |-> FormatFixed((SeqSum(a) \div Len(a)), 1, SummaryDecimals),
         min |-> FormatFixed(SetMin(Range(a)), 1, SummaryDecimals),
         max |-> FormatFixed(SetMax(Range(a)), 1, SummaryDecimals)]
\* f"{city} -> Avg AQI {mean:.1f}, Min {min:.1f}, Max {max:.1f}"
CityLine(rows, city) ==
    LET a == CityAQI(rows, city)
    IN  [kind |-> "city", city |-> city,
         avg |-> FormatFixed(SeqSum(a), Len(a), SummaryDecimals),
         min |-> FormatFixed(SetMin(Range(a)), 1, SummaryDecimals),
         max |-> FormatFixed(SetMax(Range(a)), 1, SummaryDecimals)]

\* the digest: its lines in order
summarize_data(rows) ==
    LET cities == Cities(rows)
    IN  [kind |-> "str",
         lines |->
           <<[kind |-> "range", from |-> DateOf(DateMin(rows)),
                                to |-> DateOf(DateMax(rows))],
             [kind |-> "cities", cities |-> cities]>>
           \o [i \in DOMAIN cities |-> CityLine(rows, cities[i])]]

-----------------------------------------------------------------------------
(* Insight Requester: utils.get_gemini_response *)

Str(t) == [kind |-> "str", text |-> t]

\* response.text of the reply to a prompt
ResponseText(prompt) == [kind |-> "str", text |-> "response.text", prompt |-> prompt]

\* what client.models.generate_content can do
LLMOutcomes == {"text", "empty", "raise"}

\* def get_gemini_response(prompt): one positional parameter
GeminiParams == 1

\* the function's body: no try/except around the client call
get_gemini_response(prompt, env, outcome) ==
    IF ~env
    THEN [kind |-> "return", value |-> Str("Gemini API key missing."), llm |-> 0]
    ELSE IF outcome = "raise"
    THEN [kind |-> "raise", exc |-> "APIError", llm |-> 1]
    ELSE IF outcome = "text"
    THEN [kind |-> "return", value |-> ResponseText(prompt), llm |-> 1]
    ELSE [kind |-> "return", value |-> Str("No response from Gemini."), llm |-> 1]

\* Python binds the arguments before the body runs: a call with more
\* positional arguments than parameters raises TypeError
CallGemini(args, env, outcome) ==
    IF Len(args) # GeminiParams
    THEN [kind |-> "raise", exc |-> "TypeError", llm |-> 0]
    ELSE get_gemini_response(args[1], env, outcome)

-----------------------------------------------------------------------------
(* The Streamlit script: app.py *)

Kinds == <<"trend", "city", "forecast">>

ResponseKey(k) ==
    CASE k = "trend" -> "trend_response"
      [] k = "city" -> "city_response"
      [] k = "forecast" -> "forecast_response"

\* app.py:45-55
EmptySession ==
    [data_summary |-> None, trend_response |-> None,
     city_response |-> None, forecast_response |-> None]

\* the prompt of an analysis kind: its fixed template, then the digest
Prompt(k, data_summary) == [template |-> k, digest |-> data_summary]

\* the arguments app.py passes at lines 127-129, 148-150, 171-173
GeminiArgs(k, data_summary, api_key) == <<Prompt(k, data_summary), api_key>>

\* One "with colN:" block and the display that follows it (app.py:114-177).
\* st is the run so far: session state, rendered buttons, displayed
\* responses, the exception that ended the try block, LLM calls.
ButtonBlock(st, k, button, api_key, env, outcome) ==
    IF st.exc # None THEN st
    ELSE
      LET rendered == [st EXCEPT !.buttons = @ \cup {k}]
          r == CallGemini(GeminiArgs(k, st.ss.data_summary, api_key), env, outcome)
          after ==
              IF button # k THEN rendered
              ELSE IF r.kind = "raise"
              THEN [rendered EXCEPT !.exc = [kind |-> "exception", type |-> r.exc],
                                    !.llm = @ + r.llm]
              ELSE [rendered EXCEPT !.ss[ResponseKey(k)] = r.value,
                                    !.llm = @ + r.llm]
      IN  IF after.exc = None /\ after.ss[ResponseKey(k)] # None
          THEN [after EXCEPT !.shown = @ \cup
                   {[kind |-> k, text |-> after.ss[ResponseKey(k)]]}]
          ELSE after

BlankPage ==
    [view |-> "info", error |-> None, records |-> 0, warning |-> FALSE,
     pressed |-> "none", buttons |-> {}, shown |-> {}, caption |-> FALSE]

\* if st.session_state.data_summary is None (app.py:107)
SummaryNeeded(ss) == ss.data_summary = None

\* app.py:68-182 for a loaded and sorted df
Dashboard(rows, api_key, env, button, ss, outcome) ==
    LET frame == [kind |-> "DataFrame", rows |-> rows]
        base == [BlankPage EXCEPT !.view = "dashboard", !.records = Len(rows),
                                  !.pressed = button]
    IN  IF ~api_key
        THEN [ss |-> ss, df |-> frame, summarized |-> None, llm |-> 0,
              page |-> [base EXCEPT !.warning = TRUE, !.caption = TRUE]]
        ELSE
          LET build == SummaryNeeded(ss)
              ss1 == IF build
                     THEN [ss EXCEPT !.data_summary = summarize_data(rows)]
                     ELSE ss
              st0 == [ss |-> ss1, buttons |-> {}, shown |-> {}, exc |-> None,
                      llm |-> 0]
              st1 == ButtonBlock(st0, Kinds[1], button, api_key, env, outcome)
              st2 == ButtonBlock(st1, Kinds[2], button, api_key, env, outcome)
              st3 == ButtonBlock(st2, Kinds[3], button, api_key, env, outcome)
          IN  [ss |-> st3.ss, df |-> frame,
               summarized |-> IF build THEN frame ELSE None,
               llm |-> st3.llm,
               page |-> [base EXCEPT
                           !.buttons = st3.buttons, !.shown = st3.shown,
                           !.caption = (st3.exc = None),
                           !.error = IF st3.exc = None THEN None
                                     ELSE [exc |-> st3.exc.type,
                                           from |-> "get_gemini_response"]]]

\* One execution of the script (app.py:60-193): the set of its outcomes
Script(file, api_key, env, button, ss, outcome) ==
    IF file = None
    THEN {[ss |-> ss, df |-> None, summarized |-> None, llm |-> 0,
           page |-> BlankPage]}
    ELSE
      LET ld == load_data(file)
      IN  IF ld.kind = "raise"
          THEN {[ss |-> ss, df |-> None, summarized |-> None, llm |-> 0,
                 page |-> [BlankPage EXCEPT
                             !.view = "error",
                             !.error = [exc |-> ld.exc, from |-> "load_data",
                                        msg |-> ld.msg]]]}
          ELSE {Dashboard(s, api_key, env, button, ss, outcome) :
                  s \in sort_values(ld.rows)}

-----------------------------------------------------------------------------
(* Live AQI Resolver: utils.get_city_coordinates, fetch_air_pollution,     *)
(* fetch_live_aqi                                                          *)

\* what the geocoding request can do: a JSON list with a match, an empty
\* JSON list, a JSON object (the service's error body, e.g. for a rejected
\* key), a timeout, a connection failure
GeoOutcomes == {"found", "empty", "object", "timeout", "connection"}

\* no try/except: what requests.get raises leaves the function, and so does
\* the KeyError of r.json()[0] on a JSON object
get_city_coordinates(key, geo) ==
    IF ~key
    THEN [kind |-> "return", value |-> [error |-> "OpenWeather API key missing"],
          calls |-> <<>>]
    ELSE IF geo = "timeout"
    THEN [kind |-> "raise", exc |-> "Timeout", calls |-> <<"geocoding">>]
    ELSE IF geo = "connection"
    THEN [kind |-> "raise", exc |-> "ConnectionError", calls |-> <<"geocoding">>]
    ELSE IF geo = "empty"
    THEN [kind |-> "return", value |-> [error |-> "City not found"],
          calls |-> <<"geocoding">>]
    ELSE IF geo = "object"
    THEN [kind |-> "raise", exc |-> "KeyError", calls |-> <<"geocoding">>]
    ELSE [kind |-> "return", value |-> [lat |-> 0, lon |-> 0],
          calls |-> <<"geocoding">>]

\* data["list"][:3]
ForecastSlice == 3

Take(s, n) == SubSeq(s, 1, IF Len(s) < n THEN Len(s) ELSE n)

\* poll is what the pollution request does: [kind |-> "timeout"],
\* "connection", "http_error" (raise_for_status), "no_list" (a JSON object
\* without "list"), or "list" with the records of data["list"]
fetch_air_pollution(key, poll) ==
    IF ~key THEN [error |-> "OpenWeather API key missing."]
    ELSE IF poll.kind = "timeout"
    THEN [error |-> "OpenWeather request timed out."]
    ELSE IF poll.kind \in {"connection", "http_error"}
    THEN [error |-> "Failed to connect to OpenWeather service."]
    ELSE IF poll.kind = "no_list" \/ poll.list = <<>>
    THEN [error |-> "Air quality data unavailable from OpenWeather."]
    ELSE [current |-> poll.list[1], forecast |-> Take(poll.list, ForecastSlice)]

PyInt(n) == [kind |-> "int", v |-> n]

\* a record of data["list"]: "main" may be absent, and "aqi" within it
HasIndex(rec) == rec.has_main /\ rec.has_aqi

\* current.get("main", {}).get("aqi")
GetIndex(rec) == IF HasIndex(rec) THEN PyInt(rec.aqi) ELSE None

\* aqi_category_map (utils.py:127-133)
aqi_category_map ==
    [i \in 1..5 |-> CASE i = 1 -> "Good" [] i = 2 -> "Fair"
                      [] i = 3 -> "Moderate" [] i = 4 -> "Poor"
                      [] i = 5 -> "Very Poor"]

\* aqi_category_map.get(value, default)
MapGet(value, default) ==
    IF value # None /\ value.v \in DOMAIN aqi_category_map
    THEN aqi_category_map[value.v]
    ELSE default

\* a variant: an index outside the table is "Unknown", as for the current
\* category
HorizonDefaultUnknown(forecast_list, i, category_now) ==
    IF Len(forecast_list) >= i
    THEN MapGet(PyInt(forecast_list[i].aqi), "Unknown")
    ELSE category_now
\* utils.py:143-151: the category of horizon i (1: next 24 hours, 2: the
\* following 24 hours), for a list whose records i carry an index
HorizonCategory(forecast_list, i, category_now) ==
    IF Len(forecast_list) >= i
    THEN MapGet(PyInt(forecast_list[i].aqi), category_now)
    ELSE category_now

\* a faulty default: "Good" for an index outside the table
CategoryNowDefaultGood(current) == MapGet(GetIndex(current), "Good")
\* category_now = aqi_category_map.get(aqi_value, "Unknown")
CategoryNow(current) == MapGet(GetIndex(current), "Unknown")

\* utils.py:122-166
MapCategories(pollution, calls) ==
    LET current == pollution.current
        category_now == CategoryNow(current)
        forecast_list == pollution.forecast
        \* forecast_list[i]["main"]["aqi"] raises KeyError without the keys
        subscripted == {i \in 1..2 : Len(forecast_list) >= i}
    IN  IF \E i \in subscripted : ~HasIndex(forecast_list[i])
        THEN [kind |-> "raise", exc |-> "KeyError", calls |-> calls]
        ELSE [kind |-> "return", calls |-> calls,
              value |->
                [aqi |-> GetIndex(current),
                 category |-> category_now,
                 forecast_text |->
                    <<HorizonCategory(forecast_list, 1, category_now),
                      HorizonCategory(forecast_list, 2, category_now)>>,
                 forecast |-> forecast_list]]

fetch_live_aqi(key, geo, poll) ==
    LET location == get_city_coordinates(key, geo)
    IN  IF location.kind = "raise" THEN location
        ELSE IF "error" \in DOMAIN location.value
        THEN [kind |-> "return", calls |-> location.calls,
              value |-> [error |-> "Failed to resolve city location."]]
        ELSE
          LET pollution == fetch_air_pollution(key, poll)
              calls == Append(location.calls, "pollution")
          IN  IF "error" \in DOMAIN pollution
              THEN [kind |-> "return", calls |-> calls,
                    value |-> [error |-> "Failed to fetch air pollution data."]]
              ELSE IF "current" \notin DOMAIN pollution
              THEN [kind |-> "return", calls |-> calls,
                    value |-> [error |-> "Air quality data unavailable at the moment."]]
              ELSE MapCategories(pollution, calls)

-----------------------------------------------------------------------------
(* Inputs *)

Cell_2024_01_01 == <<"2", "0", "2", "4", "-", "0", "1", "-", "0", "1">>
Cell_2024_01_15 == <<"2", "0", "2", "4", "-", "0", "1", "-", "1", "5">>
Cell_2024_02_01 == <<"2", "0", "2", "4", "-", "0", "2", "-", "0", "1">>
Cell_2024_02_30 == <<"2", "0", "2", "4", "-", "0", "2", "-", "3", "0">>
Cell_bad == <<"b", "a", "d">>
Cell_50 == <<"5", "0">>
Cell_100 == <<"1", "0", "0">>
Cell_150 == <<"1", "5", "0">>
CityX == <<"C", "i", "t", "y", "X">>
CityY == <<"C", "i", "t", "y", "Y">>
Filler == <<"x">>

\* a date, an earlier date, and a date no calendar has
DateCells == {Cell_2024_02_01, Cell_2024_01_15, Cell_2024_02_30}
CityCells == {CityX, CityY}
AQICells == {Cell_50, Cell_bad}

RECURSIVE Spaces(_)
Spaces(n) == IF n = 0 THEN <<>> ELSE <<" ">> \o Spaces(n - 1)

Pad(name, l, r) == Spaces(l) \o name \o Spaces(r)

\* column layouts of an upload: complete, reordered with an extra column,
\* Date missing, Date in lower case, City and AQI missing, none of the three
Layouts ==
    {<<ColDate, ColCity, ColAQI>>, <<ColAQI, ColExtra, ColCity, ColDate>>,
     <<ColCity, ColAQI>>, <<ColDateLower, ColCity, ColAQI>>, <<ColDate>>,
     <<ColExtra>>}

PaddedHeaders ==
    {[i \in DOMAIN h |-> Pad(h[i], l, r)] :
        h \in Layouts, l \in 0..MaxPad, r \in 0..MaxPad}

\* the cells a column of the upload may hold
CellsFor(name) ==
    CASE Strip(name) = ColDate -> DateCells
      [] Strip(name) = ColCity -> CityCells
      [] Strip(name) = ColAQI -> AQICells
      [] OTHER -> {Filler}

RECURSIVE RowsFor(_)
RowsFor(header) ==
    IF header = <<>> THEN {<<>>}
    ELSE {<<c>> \o rest : c \in CellsFor(Head(header)), rest \in RowsFor(Tail(header))}

\* the sequences of length k over S
SeqsOf(S, k) == [1..k -> S]

\* an unpadded layout comes with up to MaxRows rows, a padded one with up
\* to one row
RowBound(h) == IF h \in Layouts THEN MaxRows ELSE 1

PlainHeader == <<ColDate, ColCity, ColAQI>>
FileA ==
    [header |-> PlainHeader,
     rows |-> <<<<Cell_2024_01_15, CityX, Cell_150>>, <<Cell_2024_01_01, CityX, Cell_50>>>>]
FileB == [header |-> PlainHeader, rows |-> <<<<Cell_2024_02_01, CityY, Cell_100>>>>]
FileMixed ==
    [header |-> PlainHeader,
     rows |-> <<<<Cell_2024_01_01, CityX, Cell_bad>>, <<Cell_2024_02_01, CityX, Cell_100>>>>]
FileTies ==
    [header |-> PlainHeader,
     rows |-> <<<<Cell_2024_02_01, CityX, Cell_50>>, <<Cell_2024_02_01, CityY, Cell_150>>>>]
FileNoDate == [header |-> <<ColCity, ColAQI>>, rows |-> <<<<CityX, Cell_50>>>>]

\* the files of one browser session
SessionUploads == {FileA, FileB, FileMixed, FileTies, FileNoDate}

Timestamp(y, m, d) == [kind |-> "Timestamp", y |-> y, m |-> m, d |-> d]

Observations ==
    {[Date |-> t, City |-> c, AQI |-> [kind |-> "num", v |-> a]] :
        t \in {Timestamp(2024, 1, 1), Timestamp(2024, 1, 15), Timestamp(2024, 2, 1)},
        c \in CityCells, a \in {50, 51, 100, 150}}

\* what load_data and sort_values can hand to the summary builder
IsDataset(q) == IsSortedByDate(q)

PollutionRecords ==
    {[has_main |-> FALSE, has_aqi |-> FALSE, aqi |-> 0],
     [has_main |-> TRUE, has_aqi |-> FALSE, aqi |-> 0]}
    \cup {[has_main |-> TRUE, has_aqi |-> TRUE, aqi |-> n] : n \in 0..6}

\* the pollution request fails, or answers without "list"
PollFailures ==
    {[kind |-> k] : k \in {"timeout", "connection", "http_error", "no_list"}}

\* the pollution request answers with a "list" of k records
PollLists(k) == {[kind |-> "list", list |-> l] : l \in SeqsOf(PollutionRecords, k)}

\* a few outcomes of each kind: no record, one of index 1, one without "main"
FewPollOutcomes ==
    {[kind |-> k] : k \in {"timeout", "connection", "no_list"}}
    \cup {[kind |-> "list", list |-> l] :
            l \in {<<>>, <<[has_main |-> FALSE, has_aqi |-> FALSE, aqi |-> 0]>>,
                   <<[has_main |-> TRUE, has_aqi |-> TRUE, aqi |-> 1]>>}}

-----------------------------------------------------------------------------
(* The session: one execution of the script per interaction *)

Init ==
    /\ uploaded_file = None
    /\ env_key \in BOOLEAN
    /\ sidebar_key = FALSE
    /\ session_state = EmptySession
    /\ df = None
    /\ page = BlankPage
    /\ summarized = None
    /\ llm_called = 0
    /\ live = None
    /\ live_log = {}

\* api_key = os.getenv(...) or the sidebar's text input (app.py:33-35);
\* utils.get_gemini_response reads the environment alone (utils.py:40)
Rerun(file, sidebar, button, outcome) ==
    \E r \in Script(file, env_key \/ sidebar, env_key, button, session_state, outcome) :
        /\ uploaded_file' = file
        /\ sidebar_key' = sidebar
        /\ session_state' = r.ss
        /\ df' = r.df
        /\ page' = r.page
        /\ summarized' = r.summarized
        /\ llm_called' = r.llm
        /\ UNCHANGED <<env_key, live, live_log>>

Upload(f) ==
    /\ f # uploaded_file
    /\ Rerun(f, sidebar_key, "none", "text")

ClearFile ==
    /\ uploaded_file # None
    /\ Rerun(None, sidebar_key, "none", "text")

\* the text input exists only without a key in the environment
TypeKey ==
    /\ ~env_key
    /\ Rerun(uploaded_file, ~sidebar_key, "none", "text")

\* a button can be pressed once the last run rendered it
Press(k, outcome) ==
    /\ k \in page.buttons
    /\ Rerun(uploaded_file, sidebar_key, k, outcome)

Rerender == Rerun(uploaded_file, sidebar_key, "none", "text")

Next ==
    \/ \E f \in SessionUploads : Upload(f)
    \/ ClearFile
    \/ TypeKey
    \/ \E k \in Range(Kinds), o \in LLMOutcomes : Press(k, o)
    \/ Rerender

Spec == Init /\ [][Next]_vars

\* the first upload of a session, over every upload of the bounds
FirstUpload ==
    /\ uploaded_file = None
    /\ \E h \in PaddedHeaders :
          \E k \in 0..RowBound(h) :
             \E rs \in SeqsOf(RowsFor(h), k) : Upload([header |-> h, rows |-> rs])

NextLoad == FirstUpload

SpecLoad == Init /\ [][NextLoad]_vars

\* the summary builder on every Dataset of the bounds (app.py:107-108)
InitSummary ==
    /\ uploaded_file = None
    /\ env_key = TRUE
    /\ sidebar_key = FALSE
    /\ session_state = EmptySession
    /\ \E k \in 0..MaxObs :
          \E q \in SeqsOf(Observations, k) :
             IsDataset(q) /\ df = [kind |-> "DataFrame", rows |-> q]
    /\ page = BlankPage
    /\ summarized = None
    /\ llm_called = 0
    /\ live = None
    /\ live_log = {}

BuildDigest ==
    /\ df # None
    /\ SummaryNeeded(session_state)
    /\ session_state' = [session_state EXCEPT !.data_summary = summarize_data(df.rows)]
    /\ summarized' = df
    /\ UNCHANGED <<uploaded_file, env_key, sidebar_key, df, page, llm_called,
                   live, live_log>>

NextSummary == BuildDigest

SpecSummary == InitSummary /\ [][NextSummary]_vars

-----------------------------------------------------------------------------
(* Live-AQI calls *)

Call(key, geo, poll) ==
    [key |-> key, geo |-> geo, poll |-> poll, result |-> fetch_live_aqi(key, geo, poll)]

Failed(call) == call.result.kind = "raise" \/ "error" \in DOMAIN call.result.value

\* the branch that ended a failed call (utils.py:56-63, 73-99, 143-151)
FailureCause(key, geo, poll) ==
    IF ~key THEN "credential missing"
    ELSE IF geo = "empty" THEN "city not found"
    ELSE IF geo = "timeout" THEN "geocoding timeout"
    ELSE IF geo = "connection" THEN "geocoding connection failure"
    ELSE IF geo = "object" THEN "geocoding error body"
    ELSE IF poll.kind = "timeout" THEN "timeout"
    ELSE IF poll.kind = "connection" THEN "connection failure"
    ELSE IF poll.kind = "http_error" THEN "http error"
    ELSE IF poll.kind = "no_list" \/ poll.list = <<>> THEN "empty payload"
    ELSE "record without index"

\* one call, over every collaborator outcome of the bounds
FetchOnce ==
    /\ live = None
    /\ \E key \in BOOLEAN, geo \in GeoOutcomes :
          \E poll \in PollFailures \cup UNION {PollLists(k) : k \in 0..MaxList} :
             live' = Call(key, geo, poll)
    /\ UNCHANGED <<uploaded_file, env_key, sidebar_key, session_state, df, page,
                   summarized, llm_called, live_log>>

NextLive == FetchOnce

SpecLive == Init /\ [][NextLive]_vars

\* call after call, with the failed calls logged
FetchLogged ==
    /\ \E key \in BOOLEAN, geo \in GeoOutcomes, poll \in FewPollOutcomes :
          LET call == Call(key, geo, poll)
          IN  /\ live' = call
              /\ live_log' =
                    IF Failed(call)
                    THEN live_log \cup {[cause |-> FailureCause(key, geo, poll),
                                         result |-> call.result]}
                    ELSE live_log
    /\ UNCHANGED <<uploaded_file, env_key, sidebar_key, session_state, df, page,
                   summarized, llm_called>>

NextLiveLog == FetchLogged

SpecLiveLog == Init /\ [][NextLiveLog]_vars

-----------------------------------------------------------------------------
(* Properties of the loader, checked under SpecLoad *)

\* a raw column name that reads c once the spaces around it are dropped
NamesColumn(raw, c) ==
    \E l \in 0..(Len(raw) - Len(c)) :
        raw = Spaces(l) \o c \o Spaces(Len(raw) - Len(c) - l)

MissingColumns(file) ==
    {c \in required : ~\E i \in DOMAIN file.header : NamesColumn(file.header[i], c)}

CellOf(file, i, c) ==
    file.rows[i][CHOOSE j \in DOMAIN file.header : NamesColumn(file.header[j], c)]

\* the rows of an upload whose Date and AQI both parse
ParseableRows(file) ==
    {i \in DOMAIN file.rows :
        /\ ToDatetime(CellOf(file, i, ColDate)).kind = "Timestamp"
        /\ ToNumeric(CellOf(file, i, ColAQI)).kind = "num"}

ObservationOf(file, i) ==
    [Date |-> ToDatetime(CellOf(file, i, ColDate)),
     City |-> CellOf(file, i, ColCity),
     AQI  |-> ToNumeric(CellOf(file, i, ColAQI))]

NotAfter(a, b) ==
    \/ a.y < b.y
    \/ a.y = b.y /\ a.m < b.m
    \/ a.y = b.y /\ a.m = b.m /\ a.d <= b.d

\* C1: an upload in which Date, City or AQI is absent (spaces around column
\* names aside) is rejected by load_data with its invalid-data error
\* (ValueError), whose message names every missing column, and the run has
\* no Dataset.
C1_MissingColumnsRejected ==
    (uploaded_file # None /\ MissingColumns(uploaded_file) # {}) =>
        /\ page.view = "error"
        /\ page.error.from = "load_data"
        /\ page.error.exc = "ValueError"
        /\ MissingColumns(uploaded_file) \subseteq Range(page.error.msg)
        /\ df = None
        /\ summarized = None

\* an upload whose padded header lacks City and AQI was rejected
C1_Witness ==
    /\ uploaded_file # None
    /\ MissingColumns(uploaded_file) = {ColCity, ColAQI}
    /\ uploaded_file.header = <<Pad(ColDate, 1, 1)>>
    /\ Len(uploaded_file.rows) = 1
    /\ page.view = "error"

\* C2: for an upload with the three columns and at least one row whose Date
\* and AQI parse, the run has a Dataset holding exactly the parseable rows
\* (each unparseable row lowers the count by one, none raises an error),
\* sorted ascending by date.
C2_ValidRowsKeptAndSorted ==
    (/\ uploaded_file # None
     /\ MissingColumns(uploaded_file) = {}
     /\ ParseableRows(uploaded_file) # {}) =>
        LET good == ParseableRows(uploaded_file)
            bad == DOMAIN uploaded_file.rows \ good
        IN  /\ page.view = "dashboard"
            /\ df # None
            /\ Len(df.rows) = Len(uploaded_file.rows) - Cardinality(bad)
            /\ page.records = Len(df.rows)
            /\ \A o \in Range(df.rows) \cup {ObservationOf(uploaded_file, i) : i \in good} :
                  Cardinality({j \in DOMAIN df.rows : df.rows[j] = o})
                  = Cardinality({i \in good : ObservationOf(uploaded_file, i) = o})
            /\ \A j, k \in DOMAIN df.rows :
                  j < k => NotAfter(df.rows[j].Date, df.rows[k].Date)

\* three rows, the later date first and one AQI that is text: two rows are
\* left, the earlier first
C2_Witness ==
    /\ uploaded_file # None
    /\ MissingColumns(uploaded_file) = {}
    /\ Len(uploaded_file.rows) = 3
    /\ ParseableRows(uploaded_file) = {1, 3}
    /\ CellOf(uploaded_file, 1, ColDate) = Cell_2024_02_01
    /\ CellOf(uploaded_file, 2, ColAQI) = Cell_bad
    /\ CellOf(uploaded_file, 3, ColDate) = Cell_2024_01_15
    /\ df # None
    /\ Len(df.rows) = 2
    /\ df.rows[1].Date = Timestamp(2024, 1, 15)

\* C3: when no row of an upload has both a parseable date and a parseable
\* AQI, the load fails: no empty Dataset is returned and summarize_data is
\* not invoked on zero rows.
C3_AllRowsDroppedFails ==
    /\ (/\ uploaded_file # None
        /\ MissingColumns(uploaded_file) = {}
        /\ ParseableRows(uploaded_file) = {}) =>
            (page.view = "error" /\ df = None)
    /\ df # None => df.rows # <<>>
    /\ summarized # None => summarized.rows # <<>>

-----------------------------------------------------------------------------
(* Properties of the summary builder, checked under SpecSummary *)

Digest == session_state.data_summary

CityValues(rows, c) == {i \in DOMAIN rows : rows[i].City = c}

SumOver(rows, I) == SeqSum([i \in 1..Len(rows) |-> IF i \in I THEN rows[i].AQI.v ELSE 0])

Abs(x) == IF x < 0 THEN -x ELSE x

\* a printed number with k decimals that is the value num/den rounded to
\* the nearest, a tie going to the even digit
Prints(shown, num, den, k) ==
    /\ Len(shown.decimals) = k
    /\ LET scaled == shown.whole * Pow10(k)
                     + SeqSum([i \in 1..k |-> shown.decimals[i] * Pow10(k - i)])
       IN  /\ 2 * Abs(scaled * den - num * Pow10(k)) <= den
           /\ 2 * Abs(scaled * den - num * Pow10(k)) = den => scaled % 2 = 0

CityLinesOf(c) == {i \in DOMAIN Digest.lines : Digest.lines[i].kind = "city" /\ Digest.lines[i].city = c}

MinOf(rows, I) == CHOOSE v \in {rows[i].AQI.v : i \in I} : \A i \in I : v <= rows[i].AQI.v
MaxOf(rows, I) == CHOOSE v \in {rows[i].AQI.v : i \in I} : \A i \in I : v >= rows[i].AQI.v

Months(rows, I) == {<<rows[i].Date.y, rows[i].Date.m>> : i \in I}

\* the statistics of city c stand in the digest with k decimals
CityStatistics(rows, c, k) ==
    LET I == CityValues(rows, c)
    IN  /\ Cardinality(CityLinesOf(c)) = 1
        /\ \A i \in CityLinesOf(c) :
              /\ Prints(Digest.lines[i].min, MinOf(rows, I), 1, k)
              /\ Prints(Digest.lines[i].max, MaxOf(rows, I), 1, k)
              /\ Prints(Digest.lines[i].avg, SumOver(rows, I), Cardinality(I), k)

\* a monthly-average line per month of city c, after the city's line, in
\* chronological order, with the month's mean to one decimal
MonthlyLines(rows, c) ==
    LET I == CityValues(rows, c)
    IN  \A mo \in Months(rows, I) :
          \E j \in DOMAIN Digest.lines :
            /\ Digest.lines[j].kind = "month"
            /\ Digest.lines[j].month = mo
            /\ \E i \in CityLinesOf(c) : i < j
            /\ LET J == {i \in I : <<rows[i].Date.y, rows[i].Date.m>> = mo}
               IN  Prints(Digest.lines[j].avg, SumOver(rows, J), Cardinality(J), 1)

-----------------------------------------------------------------------------
(* Properties of the live-AQI resolver, checked under SpecLive and         *)
(* SpecLiveLog                                                             *)

\* the fixed table, "Unknown" outside it
Label(index) ==
    CASE index = 1 -> "Good" [] index = 2 -> "Fair" [] index = 3 -> "Moderate"
      [] index = 4 -> "Poor" [] index = 5 -> "Very Poor" [] OTHER -> "Unknown"

\* the label of a record of the collaborator's list
RecordLabel(rec) ==
    IF rec.has_main /\ rec.has_aqi THEN Label(rec.aqi) ELSE "Unknown"

\* the last call returned a reading
Reading ==
    /\ live # None
    /\ live.result.kind = "return"
    /\ "category" \in DOMAIN live.result.value

\* the forecast list of the last call: the first three records of the list
ForecastOf(call) == [i \in 1..(IF Len(call.poll.list) < 3 THEN Len(call.poll.list) ELSE 3)
                        |-> call.poll.list[i]]

\* C5: in every reading the current category is the table's label of the
\* current record's index, "Unknown" for an index outside 1..5 or absent.
C5_CurrentCategoryIsTableImage ==
    Reading =>
        /\ live.result.value.category = RecordLabel(live.poll.list[1])
        /\ live.result.value.category
             \in {"Good", "Fair", "Moderate", "Poor", "Very Poor", "Unknown"}

\* a reading whose current index is 6, labelled "Unknown"
C5_Witness ==
    /\ Reading
    /\ live.poll.list[1].has_main /\ live.poll.list[1].has_aqi
    /\ live.poll.list[1].aqi = 6
    /\ live.result.value.category = "Unknown"
    /\ live.result.value.aqi = PyInt(6)

\* C6 as stated: each short-horizon category is the table's label of the
\* index of forecast record 0 or 1 ("Unknown" outside 1..5, as for the
\* current category), and the current category when the record is missing.
C6_HorizonsAreTableImages ==
    Reading =>
        \A i \in 1..2 :
            live.result.value.forecast_text[i] =
                IF Len(ForecastOf(live)) >= i
                THEN RecordLabel(ForecastOf(live)[i])
                ELSE RecordLabel(live.poll.list[1])

\* C6 amended: in every reading, each short-horizon category is the table's
\* label of the index of forecast record 0 or 1 when that index is in 1..5,
\* and the current category when the record is missing or its index is
\* outside 1..5; with a single record in the list both equal the current
\* category.
C6_HorizonsFallBackToCurrent ==
    Reading =>
        /\ \A i \in 1..2 :
              live.result.value.forecast_text[i] =
                  IF Len(ForecastOf(live)) >= i /\ ForecastOf(live)[i].aqi \in 1..5
                  THEN Label(ForecastOf(live)[i].aqi)
                  ELSE RecordLabel(live.poll.list[1])
        /\ Len(live.poll.list) = 1 =>
              live.result.value.forecast_text
                = <<live.result.value.category, live.result.value.category>>

\* current index 1, second record of index 0: "Good" for both horizons
C6_Witness ==
    /\ Reading
    /\ Len(live.poll.list) = 2
    /\ live.poll.list[1].aqi = 1
    /\ live.poll.list[2].has_main /\ live.poll.list[2].has_aqi
    /\ live.poll.list[2].aqi = 0
    /\ live.result.value.forecast_text = <<"Good", "Good">>

\* the causes the claim tells apart
ClaimedCauses ==
    {"credential missing", "city not found", "timeout", "connection failure",
     "empty payload"}

\* C7: every failed call ends with an error record, calls that failed for
\* different causes (credential missing, city not found, timeout,
\* connection failure, empty payload) ended with different error records,
\* and the pollution collaborator is called only after the geocoding one.
C7_CausesDistinguishable ==
    /\ \A a \in live_log :
          a.cause \in ClaimedCauses =>
              (a.result.kind = "return" /\ "error" \in DOMAIN a.result.value)
    /\ \A a, b \in live_log :
          (a.cause \in ClaimedCauses /\ b.cause \in ClaimedCauses /\ a.cause # b.cause)
              => a.result.value # b.result.value
    /\ live # None =>
          \A i \in DOMAIN live.result.calls :
              live.result.calls[i] = "pollution" =>
                  (i = 2 /\ live.result.calls[1] = "geocoding" /\ live.geo = "found")

-----------------------------------------------------------------------------
(* Properties of the session, checked under Spec *)

\* C8: no failure of a collaborator call leaves its component as a raw
\* exception: the only error a run shows is the loader's, and a run that
\* shows the dashboard with a key renders the page to its end.
C8_NoRawFailure ==
    /\ page.error # None => page.error.from = "load_data"
    /\ (page.view = "dashboard") => page.caption

\* C9: the cached digest is the summary of the Dataset of the current run,
\* and no cached response was derived from another Dataset's digest.
C9_DigestIsOfCurrentDataset ==
    (df # None /\ session_state.data_summary # None) =>
        /\ session_state.data_summary = summarize_data(df.rows)
        /\ \A k \in Range(Kinds) :
              session_state[ResponseKey(k)] # None =>
                  ("prompt" \in DOMAIN session_state[ResponseKey(k)] =>
                      session_state[ResponseKey(k)].prompt.digest = summarize_data(df.rows))

\* C10: a run with a button pressed calls the LLM exactly once and caches
\* that kind's response; a run without a button pressed calls it not at all
\* and displays every cached response.
C10_OneCallPerPress ==
    page.view = "dashboard" =>
        /\ page.pressed # "none" =>
              (llm_called = 1 /\ session_state[ResponseKey(page.pressed)] # None)
        /\ page.pressed = "none" =>
              /\ llm_called = 0
              /\ \A k \in page.buttons :
                    session_state[ResponseKey(k)] # None =>
                        [kind |-> k, text |-> session_state[ResponseKey(k)]] \in page.shown

=============================================================================
